---- MODULE Spec2Model ----
(***************************************************************************)
(* Model of the certificate batch dispatch engine of smart-cert-backend:   *)
(* the certificates collection, the send_batch / retry_failed /            *)
(* get_progress handlers of app/api/certificate.py and the background      *)
(* task _process_batch, one action per handler or per await-delimited      *)
(* step of the task.                                                       *)
(***************************************************************************)
EXTENDS Integers, Sequences, FiniteSets, Bags, TLC

\* ---------------------------------------------------------------- bounds
\* size of the identifier pool generate_certificate_id draws from
MaxIds == 4
\* longest CSV body (number of data rows) a request carries
MaxRows == 2
\* number of _process_batch tasks alive at the same time
MaxRuns == 2
\* number of retry_failed requests that launch a task
MaxRetries == 2
\* largest font size settings.DEFAULT_FONT_SIZE may be configured to
MaxFontSize == 5
\* largest pixel width of a rendered name, and of the text box
MaxTextWidth == 2
\* number of times the calendar year changes
MaxYears == 1

\* ------------------------------------------------------------- constants
PENDING == "pending"
SENT == "sent"
FAILED == "failed"
CertificateStatus == {PENDING, SENT, FAILED}

\* Python None in a string-valued field, and in a path-valued field
None == "None"
NoPath == << >>
\* a missing cell of the CSV (pandas NaN)
NaN == <<"NaN">>

Ids == 1..MaxIds

\* ------------------------------------------------------------- variables
VARIABLES
    certificates,   \* db.certificates: certificate_id -> document
    nextId,         \* state of the identifier generator
    now,            \* logical clock read by utcnow()
    tasks,          \* bag of the _process_batch tasks that have not returned
    finished,       \* the task that returned in the last step, if any
    retries,        \* number of tasks retry_failed has launched
    files,          \* files present under settings.GENERATED_DIR
    progress,       \* locals of the get_progress request in flight
    resp,           \* response of the request handled by the last step, if any
    alive,          \* FALSE once the hosting process has been terminated
    font,           \* inputs and result of a call of get_auto_sized_font
    year            \* datetime.utcnow().year

vars ==
    <<certificates, nextId, now, tasks, finished, retries, files, progress, resp, alive,
      font, year>>

\* --------------------------------------------------------- pure helpers
\* str.lower() on one character of the alphabet {" ", "a", "A", "@"}
Lower(ch) == IF ch = "A" THEN "a" ELSE ch

RECURSIVE LStrip(_)
LStrip(s) == IF s # << >> /\ Head(s) = " " THEN LStrip(Tail(s)) ELSE s

RECURSIVE RStrip(_)
RStrip(s) ==
    IF s # << >> /\ s[Len(s)] = " " THEN RStrip(SubSeq(s, 1, Len(s) - 1)) ELSE s

\* str.strip()
Strip(s) == RStrip(LStrip(s))

\* str.lower()
StrLower(s) == [k \in 1..Len(s) |-> Lower(s[k])]

\* str.contains("@")
ContainsAt(s) == \E k \in 1..Len(s) : s[k] = "@"

\* parse_csv on a body that has both columns: dropna, strip, lower, filter
NotNa(row) == row.name # NaN /\ row.email # NaN

Normalise(row) == [name |-> Strip(row.name), email |-> StrLower(Strip(row.email))]

ValidRow(row) == Len(row.name) > 0 /\ ContainsAt(row.email)

parse_csv(body) ==
    LET kept == SelectSeq(body, NotNa)
        norm == [k \in 1..Len(kept) |-> Normalise(kept[k])]
    IN SelectSeq(norm, ValidRow)

\* rows an uploaded CSV may hold: one that parse_csv keeps after trimming and
\* lower-casing, and three it drops (blank name, no "@", missing cell)
GoodRow == [name |-> <<" ", "A">>, email |-> <<"A", "@", " ">>]
BlankName == [name |-> <<" ">>, email |-> <<"a", "@">>]
NoAt == [name |-> <<"A">>, email |-> <<"A">>]
MissingCell == [name |-> <<"A">>, email |-> NaN]

RECURSIVE SeqsUpTo(_, _)
SeqsUpTo(S, n) ==
    IF n = 0 THEN {<< >>}
    ELSE LET shorter == SeqsUpTo(S, n - 1)
         IN shorter \cup {Append(q, x) : q \in {r \in shorter : Len(r) = n - 1}, x \in S}

\* data rows of the uploads: any mix of kept and blank-name rows, and the
\* other dropped rows alone or in front of a kept row
Bodies ==
    SeqsUpTo({GoodRow, BlankName}, MaxRows)
    \cup {<<NoAt>>, <<MissingCell>>, <<NoAt, GoodRow>>, <<MissingCell, GoodRow>>}

\* the uploads a client may post: file extension, header check, data rows
Uploads ==
    [ext : {"csv"}, columns_ok : {TRUE}, rows : Bodies]
    \cup {[ext |-> "txt", columns_ok |-> TRUE, rows |-> <<GoodRow>>],
          [ext |-> "csv", columns_ok |-> FALSE, rows |-> <<GoodRow>>]}

\* settings.GENERATED_DIR / f"{cert_id}.pdf"
PdfPath(cert_id) == <<cert_id, "pdf">>

\* ids of the documents that match {"batch_id": b, "status": in statuses}
FindIds(batch_id, statuses) ==
    {c \in DOMAIN certificates :
        /\ certificates[c].batch_id = batch_id
        /\ certificates[c].status \in statuses}

\* count_documents
CountDocuments(batch_id, statuses) == Cardinality(FindIds(batch_id, statuses))

RECURSIVE SortedSeq(_)
SortedSeq(S) ==
    IF S = {} THEN << >>
    ELSE LET m == CHOOSE x \in S : \A y \in S : x <= y
         IN <<m>> \o SortedSeq(S \ {m})

\* -------------------------------------------------------- font_service
FontSizes == 1..MaxFontSize

\* The calls of get_auto_sized_font: settings.DEFAULT_FONT_SIZE and
\* settings.MIN_FONT_SIZE with MIN <= DEFAULT, max_width_px, and for the name
\* the width font.getbbox(name) measures at each font size (text_width).  The
\* empty name is the one of width 0 at every size.  font_size 0: not called yet.
FontCalls ==
    {f \in [DEFAULT_FONT_SIZE : FontSizes, MIN_FONT_SIZE : FontSizes,
            max_width_px : 0..MaxTextWidth,
            text_width : [FontSizes -> 0..MaxTextWidth],
            font_size : {0}] :
        f.MIN_FONT_SIZE <= f.DEFAULT_FONT_SIZE}

\* no call of get_auto_sized_font is being looked at
NoFont ==
    [DEFAULT_FONT_SIZE |-> 1, MIN_FONT_SIZE |-> 1, max_width_px |-> 0,
     text_width |-> [s \in FontSizes |-> 0], font_size |-> 0]

\* while font_size >= MIN_FONT_SIZE: return font_size if the name fits, else
\* font_size -= 2; after the loop return MIN_FONT_SIZE
RECURSIVE WhileFontSize(_, _)
WhileFontSize(f, font_size) ==
    IF font_size >= f.MIN_FONT_SIZE
    THEN IF f.text_width[font_size] <= f.max_width_px
         THEN font_size
         ELSE WhileFontSize(f, font_size - 2)
    ELSE f.MIN_FONT_SIZE

\* a sizing that always falls back to the minimum size
AutoSizedFont_Min(f) == f.MIN_FONT_SIZE

\* a sizing that always keeps the default size
AutoSizedFont_Default(f) == f.DEFAULT_FONT_SIZE

\* the font_size get_auto_sized_font returns
AutoSizedFont(f) == WhileFontSize(f, f.DEFAULT_FONT_SIZE)

\* ----------------------------------------------------------------- Init
\* the year the clock shows at start
FirstYear == 2026

NoProgress == [pc |-> "idle", batch_id |-> 0, total |-> 0, sent |-> 0]

NoResp == [op |-> None, code |-> 0, body |-> [detail |-> None]]

NoTask ==
    [batch_id |-> 0, pc |-> "none", docs |-> << >>, idx |-> 0,
     err |-> None, written |-> 0, failed |-> FALSE, requeued |-> {}]

Init ==
    /\ certificates = << >>
    /\ nextId = 1
    /\ now = 0
    /\ tasks = EmptyBag
    /\ finished = NoTask
    /\ retries = 0
    /\ files = {}
    /\ progress = NoProgress
    /\ resp = NoResp
    /\ alive = TRUE
    /\ font = NoFont
    /\ year = FirstYear

\* ------------------------------------------------------------ send_batch
\* send_batch seeding its records as already sent
NewDoc_Sent(cert_id, batch_id, row, t) ==
    [certificate_id |-> cert_id, batch_id |-> batch_id,
     name |-> row.name, email |-> row.email,
     status |-> SENT, file_path |-> NoPath, error_message |-> None,
     created_at |-> t]

\* one document of the docs list of send_batch
NewDoc(cert_id, batch_id, row, t) ==
    [certificate_id |-> cert_id, batch_id |-> batch_id,
     name |-> row.name, email |-> row.email,
     status |-> PENDING, file_path |-> NoPath, error_message |-> None,
     created_at |-> t]

\* asyncio.create_task(_process_batch(batch_id, ...)): the coroutine has not
\* run yet, its first step is the find.  Three fields are history: written
\* (number of update_one calls of this task the store has applied), failed
\* (an except clause of this task has run) and requeued (the documents the
\* launching retry_failed reset, kept until the task has run its find).
NewTask(batch_id, requeued) ==
    [batch_id |-> batch_id, pc |-> "find", docs |-> << >>, idx |-> 0,
     err |-> None, written |-> 0, failed |-> FALSE, requeued |-> requeued]

\* raise HTTPException(status_code=code, detail=detail)
Reject(op, code, detail) == [op |-> op, code |-> code, body |-> [detail |-> detail]]

\* db.certificates.insert_many(docs)
InsertMany(docs) ==
    [c \in DOMAIN certificates \cup {d.certificate_id : d \in docs} |->
        IF c \in DOMAIN certificates THEN certificates[c]
        ELSE CHOOSE d \in docs : d.certificate_id = c]

\* send_batch without its check for an empty row list
NoValidRows_Never(rows) == FALSE

\* if not rows
NoValidRows(rows) == rows = << >>

send_batch(csv_file) ==
    /\ alive
    /\ IF csv_file.ext # "csv"
       THEN /\ resp' = Reject("send_batch", 400, "Must be a CSV file.")
            /\ UNCHANGED <<certificates, nextId, now, tasks>>
       ELSE IF ~csv_file.columns_ok
       THEN /\ resp' = Reject("send_batch", 422, "Failed to parse CSV")
            /\ UNCHANGED <<certificates, nextId, now, tasks>>
       ELSE LET rows == parse_csv(csv_file.rows) IN
            IF NoValidRows(rows)
            THEN /\ resp' = Reject("send_batch", 400, "CSV contains no valid rows.")
                 /\ UNCHANGED <<certificates, nextId, now, tasks>>
            ELSE LET batch_id == nextId
                     docs == {NewDoc(batch_id + k, batch_id, rows[k], now) :
                                 k \in 1..Len(rows)}
                 IN /\ nextId + Len(rows) <= MaxIds
                    /\ BagCardinality(tasks) < MaxRuns
                    /\ certificates' = InsertMany(docs)
                    /\ nextId' = nextId + Len(rows) + 1
                    /\ now' = now + 1
                    /\ tasks' = tasks (+) SetToBag({NewTask(batch_id, {})})
                    /\ resp' = [op |-> "send_batch", code |-> 200,
                                body |-> [batch_id |-> batch_id,
                                          total |-> Cardinality(docs)]]
    /\ finished' = NoTask
    /\ UNCHANGED <<retries, files, progress, alive, font, year>>

\* -------------------------------------------------------- _process_batch
\* the document the task is working on
CurDoc(t) == t.docs[t.idx]

\* {"$set": {"status": SENT, "file_path": str(pdf_path)}}
SetSent(doc, pdf_path) == [doc EXCEPT !.status = SENT, !.file_path = pdf_path]

\* an except clause that records the error text but not the status
SetFailed_NoStatus(doc, e) == [doc EXCEPT !.error_message = e]

\* {"$set": {"status": FAILED, "error_message": str(e)}}
SetFailed(doc, e) == [doc EXCEPT !.status = FAILED, !.error_message = e]

\* db.certificates.update_one({"certificate_id": cert_id}, {"$set": ...})
UpdateOne(cert_id, Set(_)) ==
    [c \in DOMAIN certificates |->
        IF c = cert_id THEN Set(certificates[c]) ELSE certificates[c]]

\* str(e) of an exception raised by the renderer or by the mail sender; the
\* texts are not told apart
ErrorTexts == {"error"}

\* task t moves to the local state t2; a task whose coroutine has returned
\* (pc = "done") leaves the bag
Step(t, t2) ==
    /\ tasks' = IF t2.pc = "done" THEN tasks (-) SetToBag({t})
                ELSE (tasks (-) SetToBag({t})) (+) SetToBag({t2})
    /\ finished' = IF t2.pc = "done" THEN t2 ELSE NoTask

\* a find that leaves out the documents another task has fetched and not yet
\* written
PendingCursor_Leased(batch_id) ==
    SortedSeq(FindIds(batch_id, {PENDING})
              \ UNION {{u.docs[k] : k \in (u.written + 1)..Len(u.docs)} :
                          u \in BagToSet(tasks)})

\* a find that fetches the PENDING documents of every batch
PendingCursor_AnyBatch(batch_id) ==
    SortedSeq({c \in DOMAIN certificates : certificates[c].status = PENDING})

\* a find that fetches the documents of the batch whatever their status
PendingCursor_AnyStatus(batch_id) == SortedSeq(FindIds(batch_id, CertificateStatus))

\* the documents db.certificates.find({batch_id, status: PENDING}) fetches
PendingCursor(batch_id) == SortedSeq(FindIds(batch_id, {PENDING}))

\* cursor = db.certificates.find({batch_id, status: PENDING}); first fetch
Find(t) ==
    LET docs == PendingCursor(t.batch_id)
    IN /\ alive
       /\ t.pc = "find"
       /\ Step(t, IF docs = << >>
                   THEN [t EXCEPT !.pc = "done", !.requeued = {}]
                   ELSE [t EXCEPT !.pc = "render", !.docs = docs, !.idx = 1,
                                  !.requeued = {}])
       /\ resp' = NoResp
       /\ UNCHANGED <<certificates, nextId, now, retries, files, progress, alive, font, year>>

\* outcomes of generate_certificate_pdf: it returns (None) or raises
RenderOutcomes == {None} \cup ErrorTexts

\* files after generate_certificate_pdf(name, cert_id, pdf_path) with outcome e
FilesAfterRender(t, e, fs) == IF e = None THEN fs \cup {PdfPath(CurDoc(t))} ELSE fs

\* a loop body that goes on to the delay without writing FAILED
AfterRender_NoUpdate(t, e, fs) ==
    IF e # None THEN [t EXCEPT !.pc = "sleep", !.err = e]
    ELSE IF PdfPath(CurDoc(t)) \in fs THEN [t EXCEPT !.pc = "send"]
    ELSE [t EXCEPT !.pc = "sleep", !.err = "PDF attachment not found"]

\* a loop body whose exceptions escape and end the task
AfterRender_Abort(t, e, fs) ==
    IF e # None THEN [t EXCEPT !.pc = "done", !.err = e]
    ELSE IF PdfPath(CurDoc(t)) \in fs THEN [t EXCEPT !.pc = "send"]
    ELSE [t EXCEPT !.pc = "done", !.err = "PDF attachment not found"]

\* The synchronous stretch of the loop body on the current document, up to
\* its first await: generate_certificate_pdf, then send_certificate_email
\* (checks pdf_path.exists(), reads the file) down to the await of the SMTP
\* call; an exception leads to the update_one of the except clause.
AfterRender(t, e, fs) ==
    IF e # None THEN [t EXCEPT !.pc = "update", !.err = e]
    ELSE IF PdfPath(CurDoc(t)) \in fs THEN [t EXCEPT !.pc = "send"]
    ELSE [t EXCEPT !.pc = "update", !.err = "PDF attachment not found"]

\* the loop body starts on the first fetched document
Render(t) ==
    /\ alive
    /\ t.pc = "render"
    /\ \E e \in RenderOutcomes :
          /\ files' = FilesAfterRender(t, e, files)
          /\ Step(t, AfterRender(t, e, files'))
    /\ resp' = NoResp
    /\ UNCHANGED <<certificates, nextId, now, retries, progress, alive, font, year>>

\* await aiosmtplib.send(...) returns or raises
Send(t) ==
    /\ alive
    /\ t.pc = "send"
    /\ \/ Step(t, [t EXCEPT !.pc = "update"])
       \/ \E e \in ErrorTexts : Step(t, [t EXCEPT !.pc = "update", !.err = e])
    /\ resp' = NoResp
    /\ UNCHANGED <<certificates, nextId, now, retries, files, progress, alive, font, year>>

\* a loop body that writes SENT whether or not an exception was raised
Outcome_AlwaysSent(t, doc) == SetSent(doc, PdfPath(CurDoc(t)))

\* the document update_one writes for task t: the try body's when no exception
\* was raised, the except clause's otherwise
Outcome(t, doc) ==
    IF t.err = None THEN SetSent(doc, PdfPath(CurDoc(t))) ELSE SetFailed(doc, t.err)

\* await db.certificates.update_one(...) is applied by the store
Update(t) ==
    /\ alive
    /\ t.pc = "update"
    /\ certificates' = UpdateOne(CurDoc(t), LAMBDA d : Outcome(t, d))
    /\ Step(t, [t EXCEPT !.pc = "sleep", !.err = None, !.written = @ + 1,
                         !.failed = @ \/ t.err # None])
    /\ resp' = NoResp
    /\ UNCHANGED <<nextId, now, retries, files, progress, alive, font, year>>

\* finally: await asyncio.sleep(settings.EMAIL_DELAY_SECONDS) elapses, then
\* safe_delete(pdf_path); the cursor hands over the next fetched document
\* without suspending and the loop body runs on it up to its first await
Pace(t) ==
    LET kept == files \ {PdfPath(CurDoc(t))}
        next == [t EXCEPT !.idx = @ + 1]
    IN /\ alive
       /\ t.pc = "sleep"
       /\ IF t.idx < Len(t.docs)
          THEN \E e \in RenderOutcomes :
                  /\ files' = FilesAfterRender(next, e, kept)
                  /\ Step(t, AfterRender(next, e, files'))
          ELSE /\ files' = kept
               /\ Step(t, [t EXCEPT !.pc = "done"])
       /\ resp' = NoResp
       /\ UNCHANGED <<certificates, nextId, now, retries, progress, alive, font, year>>

\* ---------------------------------------------------------- retry_failed
\* {"$set": {"status": PENDING, "error_message": None}}
SetPending(doc) == [doc EXCEPT !.status = PENDING, !.error_message = None]

\* a retry filter that also takes the SENT records of the batch
RetryFilter_Sent(batch_id) == FindIds(batch_id, {FAILED, SENT})

\* a retry filter that also takes the PENDING records of the batch
RetryFilter_Pending(batch_id) == FindIds(batch_id, {FAILED, PENDING})

\* the filter of the update_many of retry_failed
RetryFilter(batch_id) == FindIds(batch_id, {FAILED})

\* db.certificates.update_many(filter, {"$set": ...})
UpdateMany(hit, Set(_)) ==
    [c \in DOMAIN certificates |->
        IF c \in hit THEN Set(certificates[c]) ELSE certificates[c]]

retry_failed(batch_id) ==
    LET hit == RetryFilter(batch_id)
        modified_count == Cardinality(hit)
    IN /\ alive
       /\ certificates' = UpdateMany(hit, SetPending)
       /\ IF modified_count = 0
          THEN /\ resp' = Reject("retry_failed", 404,
                                 "No failed records found for this batch.")
               /\ UNCHANGED <<tasks, retries>>
          ELSE /\ BagCardinality(tasks) < MaxRuns
               /\ retries < MaxRetries
               /\ retries' = retries + 1
               /\ tasks' = tasks (+) SetToBag({NewTask(batch_id, hit)})
               /\ resp' = [op |-> "retry_failed", code |-> 200,
                           body |-> [modified_count |-> modified_count]]
       /\ finished' = NoTask
       /\ UNCHANGED <<nextId, now, files, progress, alive, font, year>>

\* ---------------------------------------------------------- get_progress
\* a response whose pending forgets the failed count
ProgressResult_NoFailed(batch_id, total, sent, failed) ==
    LET pending == total - sent
    IN [batch_id |-> batch_id, total |-> total, sent |-> sent, failed |-> failed,
        pending |-> pending, done |-> (pending = 0 /\ total > 0)]

\* a response that reports done as soon as nothing is pending
ProgressResult_DoneOnEmpty(batch_id, total, sent, failed) ==
    LET pending == total - sent - failed
    IN [batch_id |-> batch_id, total |-> total, sent |-> sent, failed |-> failed,
        pending |-> pending, done |-> (pending = 0)]

\* the body of the response of get_progress
ProgressResult(batch_id, total, sent, failed) ==
    LET pending == total - sent - failed
    IN [batch_id |-> batch_id, total |-> total, sent |-> sent, failed |-> failed,
        pending |-> pending, done |-> (pending = 0 /\ total > 0)]

\* batch ids a client asks about: those of the store, and 0, which has no document
BatchArgs == {certificates[c].batch_id : c \in DOMAIN certificates} \cup {0}

\* total = await count_documents({"batch_id": batch_id})
ProgressTotal(batch_id) ==
    /\ alive
    /\ progress.pc = "idle"
    /\ progress' = [pc |-> "sent", batch_id |-> batch_id, sent |-> 0,
                    total |-> CountDocuments(batch_id, CertificateStatus)]
    /\ resp' = NoResp
    /\ finished' = NoTask
    /\ UNCHANGED <<certificates, nextId, now, tasks, retries, files, alive, font, year>>

\* sent = await count_documents({"batch_id": batch_id, "status": SENT})
ProgressSent ==
    /\ alive
    /\ progress.pc = "sent"
    /\ progress' = [progress EXCEPT !.pc = "failed",
                                    !.sent = CountDocuments(progress.batch_id, {SENT})]
    /\ resp' = NoResp
    /\ finished' = NoTask
    /\ UNCHANGED <<certificates, nextId, now, tasks, retries, files, alive, font, year>>

\* failed = await count_documents({..., "status": FAILED}); return the counts
ProgressFailed ==
    /\ alive
    /\ progress.pc = "failed"
    /\ progress' = NoProgress
    /\ resp' = [op |-> "get_progress", code |-> 200,
                body |-> ProgressResult(progress.batch_id, progress.total,
                                        progress.sent,
                                        CountDocuments(progress.batch_id, {FAILED}))]
    /\ finished' = NoTask
    /\ UNCHANGED <<certificates, nextId, now, tasks, retries, files, alive, font, year>>

\* ---------------------------------------------------------- download_zip
ORG_PREFIX == "TEDxSNPSU"
CERT_NUMBER_RANDOM_CHARS == 5
\* number of hexadecimal digits' values
HexDigits == 16

\* certificate_id.replace("-", "").upper()[:CERT_NUMBER_RANDOM_CHARS]: what
\* is left of an identifier when only five hexadecimal digits are kept
ShortId(certificate_id) == certificate_id % (HexDigits ^ CERT_NUMBER_RANDOM_CHARS)

\* a certificate number that leaves the year out
CertNumber_NoYear(certificate_id, y) == <<ORG_PREFIX, FirstYear, ShortId(certificate_id)>>

\* _generate_cert_number(certificate_id), called when utcnow().year is y:
\* f"{ORG_PREFIX}-{year}-{short_id}"
CertNumber(certificate_id, y) == <<ORG_PREFIX, y, ShortId(certificate_id)>>

\* f"{name.replace(' ', '_')}_certificate.pdf"
ArcName(name) ==
    <<[k \in 1..Len(name) |-> IF name[k] = " " THEN "_" ELSE name[k]],
      "_certificate.pdf">>

\* settings.GENERATED_DIR / f"{cert_id}_dl.pdf"
DlPath(cert_id) == <<cert_id, "_dl.pdf">>

\* cursor.to_list(length=10000)
ToListLength == 10000
ToList(cursor) ==
    SubSeq(cursor, 1, IF Len(cursor) < ToListLength THEN Len(cursor) ELSE ToListLength)

\* the archive member written for a document rendered when the year is y
ZipEntry(doc, y) ==
    [arcname |-> ArcName(doc.name), certificate_id |-> doc.certificate_id,
     cert_number |-> CertNumber(doc.certificate_id, y)]

\* a loop that deletes the file of a record only when its render succeeded
DlFilesAfter_KeepFailed(fs, records, outcome) ==
    (fs \cup {DlPath(records[k]) : k \in DOMAIN records})
        \ {DlPath(records[k]) : k \in {j \in DOMAIN records : outcome[j] = None}}

\* files once the loop is over: generate_certificate_pdf writes pdf_path when
\* it succeeds (and may have written it when it raises), safe_delete(pdf_path)
\* runs in the finally clause of every iteration
DlFilesAfter(fs, records, outcome) ==
    (fs \cup {DlPath(records[k]) : k \in DOMAIN records})
        \ {DlPath(records[k]) : k \in DOMAIN records}

\* The find is the only await of the handler; the loop over the records runs
\* without suspending.  outcome[k] is what generate_certificate_pdf followed by
\* zf.write does on record k: it returns (None) or raises; skipped is the log
\* of the except clause.
download_zip(batch_id) ==
    LET records == ToList(SortedSeq(FindIds(batch_id, CertificateStatus)))
    IN /\ alive
       /\ IF records = << >>
          THEN /\ resp' = Reject("download_zip", 404, "Batch not found.")
               /\ files' = files
          ELSE \E outcome \in [DOMAIN records -> RenderOutcomes] :
                  LET ok == SortedSeq({k \in DOMAIN records : outcome[k] = None})
                  IN /\ resp' = [op |-> "download_zip", code |-> 200,
                                  body |-> [batch_id |-> batch_id,
                                            bundle |-> [j \in DOMAIN ok |->
                                                ZipEntry(certificates[records[ok[j]]], year)],
                                            skipped |-> {records[k] : k \in
                                                {j \in DOMAIN records : outcome[j] # None}}]]
                     /\ files' = DlFilesAfter(files, records, outcome)
       /\ finished' = NoTask
       /\ UNCHANGED <<certificates, nextId, now, tasks, retries, progress, alive, font, year>>

\* ------------------------------------------------- get_auto_sized_font
get_auto_sized_font ==
    /\ font.font_size = 0
    /\ font' = [font EXCEPT !.font_size = AutoSizedFont(font)]
    /\ UNCHANGED <<certificates, nextId, now, tasks, finished, retries, files,
                   progress, resp, alive, year>>

\* ------------------------------------------------------------ environment
\* the hosting process is killed; the store keeps what was written
Terminate ==
    /\ alive
    /\ alive' = FALSE
    /\ UNCHANGED <<certificates, nextId, now, tasks, retries, files, progress, font, year>>
    /\ resp' = NoResp
    /\ finished' = NoTask

\* ---------------------------------------------------------- specifications
\* requests and background tasks
Next ==
    \/ \E csv_file \in Uploads : send_batch(csv_file)
    \/ \E batch_id \in BatchArgs : retry_failed(batch_id)
    \/ \E t \in BagToSet(tasks) : Find(t)
    \/ \E t \in BagToSet(tasks) : Render(t)
    \/ \E t \in BagToSet(tasks) : Send(t)
    \/ \E t \in BagToSet(tasks) : Update(t)
    \/ \E t \in BagToSet(tasks) : Pace(t)

Spec == Init /\ [][Next]_vars

\* the same with a process that may be killed at any point
NextCrash ==
    \/ Next
    \/ Terminate

SpecCrash == Init /\ [][NextCrash]_vars

\* accepted requests and background tasks, polled by a get_progress client
NextProgress ==
    \/ \E csv_file \in Uploads : send_batch(csv_file) /\ resp'.code = 200
    \/ \E batch_id \in BatchArgs : retry_failed(batch_id) /\ resp'.code = 200
    \/ \E t \in BagToSet(tasks) : Find(t)
    \/ \E t \in BagToSet(tasks) : Render(t)
    \/ \E t \in BagToSet(tasks) : Send(t)
    \/ \E t \in BagToSet(tasks) : Update(t)
    \/ \E t \in BagToSet(tasks) : Pace(t)
    \/ \E batch_id \in BatchArgs : ProgressTotal(batch_id)
    \/ ProgressSent
    \/ ProgressFailed

SpecProgress == Init /\ [][NextProgress]_vars

\* no task of the batch is alive
NoLiveRun(batch_id) == \A t \in BagToSet(tasks) : t.batch_id # batch_id

\* requests and background tasks when a retry is accepted on a batch only once
\* the task that worked on the batch has returned
NextSerial ==
    \/ \E csv_file \in Uploads : send_batch(csv_file)
    \/ \E batch_id \in BatchArgs :
          retry_failed(batch_id) /\ (resp'.code = 200 => NoLiveRun(batch_id))
    \/ \E t \in BagToSet(tasks) : Find(t)
    \/ \E t \in BagToSet(tasks) : Render(t)
    \/ \E t \in BagToSet(tasks) : Send(t)
    \/ \E t \in BagToSet(tasks) : Update(t)
    \/ \E t \in BagToSet(tasks) : Pace(t)

SpecSerial == Init /\ [][NextSerial]_vars

\* the calendar year changes
NewYear ==
    /\ year < FirstYear + MaxYears
    /\ year' = year + 1
    /\ UNCHANGED <<certificates, nextId, now, tasks, finished, retries, files,
                   progress, resp, alive, font>>

\* batches are submitted and processed, and exported by download_zip, over
\* a change of year
NextExport ==
    \/ \E csv_file \in Uploads : send_batch(csv_file) /\ resp'.code = 200
    \/ \E t \in BagToSet(tasks) : Find(t)
    \/ \E t \in BagToSet(tasks) : Render(t)
    \/ \E t \in BagToSet(tasks) : Send(t)
    \/ \E t \in BagToSet(tasks) : Update(t)
    \/ \E t \in BagToSet(tasks) : Pace(t)
    \/ \E batch_id \in BatchArgs : download_zip(batch_id)
    \/ NewYear

SpecExport == Init /\ [][NextExport]_vars

\* get_auto_sized_font alone, on any of its calls
InitFont ==
    /\ certificates = << >>
    /\ nextId = 1
    /\ now = 0
    /\ tasks = EmptyBag
    /\ finished = NoTask
    /\ retries = 0
    /\ files = {}
    /\ progress = NoProgress
    /\ resp = NoResp
    /\ alive = TRUE
    /\ font \in FontCalls
    /\ year = FirstYear

NextFont == get_auto_sized_font

SpecFont == InitFont /\ [][NextFont]_vars

\* ------------------------------------------------------------- properties
StatusOf(c) == certificates[c].status

BatchDocs(batch_id) == FindIds(batch_id, CertificateStatus)

\* C1: a record's status changes only PENDING->SENT, PENDING->FAILED or
\* FAILED->PENDING, in every interleaving of requests and tasks; in particular
\* a record that is SENT keeps that status.
C1_StatusTransitions ==
    [][\A c \in DOMAIN certificates :
          certificates'[c].status # certificates[c].status =>
              <<certificates[c].status, certificates'[c].status>> \in
                  {<<PENDING, SENT>>, <<PENDING, FAILED>>, <<FAILED, PENDING>>}]_vars

\* C2: an accepted send_batch inserts exactly one PENDING record per parsed row,
\* with no file_path and no error_message, all under one batch_id no record
\* had before; the records of that batch_id number the rows, and every record
\* that existed is left as it was.
C2_SubmitInserts ==
    [][\A csv_file \in Uploads :
          (send_batch(csv_file) /\ resp'.code = 200) =>
              LET rows == parse_csv(csv_file.rows)
                  b == resp'.body.batch_id
                  added == DOMAIN certificates' \ DOMAIN certificates
              IN /\ rows # << >>
                 /\ BatchDocs(b) = {}
                 /\ Cardinality(added) = Len(rows)
                 /\ resp'.body.total = Len(rows)
                 /\ {c \in DOMAIN certificates' : certificates'[c].batch_id = b} = added
                 /\ \A c \in added :
                       /\ certificates'[c].certificate_id = c
                       /\ certificates'[c].status = PENDING
                       /\ certificates'[c].file_path = NoPath
                       /\ certificates'[c].error_message = None
                       /\ \E k \in 1..Len(rows) :
                             /\ certificates'[c].name = rows[k].name
                             /\ certificates'[c].email = rows[k].email
                 /\ \A c \in DOMAIN certificates : certificates'[c] = certificates[c]]_vars

\* a batch of two records has just been accepted
C2_Witness ==
    /\ resp.op = "send_batch"
    /\ resp.code = 200
    /\ resp.body.total = 2
    /\ Cardinality(BatchDocs(resp.body.batch_id)) = 2

\* C3: once a task has returned without having run its except clause, every
\* record of its batch is SENT and get_progress on the batch gives pending = 0
\* and done = true.
C3_CleanRunAllSent ==
    (finished.pc = "done" /\ ~finished.failed) =>
        LET b == finished.batch_id
            p == ProgressResult(b, CountDocuments(b, CertificateStatus),
                                CountDocuments(b, {SENT}), CountDocuments(b, {FAILED}))
        IN /\ \A c \in BatchDocs(b) : StatusOf(c) = SENT
           /\ p.pending = 0
           /\ p.done

\* C4: retry_failed sets every FAILED record of the batch to PENDING with no
\* error_message, the task it launches reads every one of those records in its
\* find, and each update of a task leaves the record SENT or FAILED.
C4_RetryRunTakesAll ==
    [][/\ \A b \in BatchArgs : retry_failed(b) =>
             \A c \in FindIds(b, {FAILED}) :
                 /\ certificates'[c].status = PENDING
                 /\ certificates'[c].error_message = None
       /\ \A t \in BagToSet(tasks) :
             /\ Find(t) => t.requeued \subseteq FindIds(t.batch_id, {PENDING})
             /\ Update(t) => certificates'[CurDoc(t)].status \in {SENT, FAILED}]_vars

\* C5: the update_many of retry_failed modifies the records of the batch that
\* are FAILED and only those; SENT and PENDING records of the batch and all
\* records of other batches stay as they are; the count returned is the number
\* of records modified.
C5_RetryFrame ==
    [][\A b \in BatchArgs :
          retry_failed(b) =>
              LET hit == FindIds(b, {FAILED})
              IN /\ DOMAIN certificates' = DOMAIN certificates
                 /\ \A c \in DOMAIN certificates \ hit : certificates'[c] = certificates[c]
                 /\ \A c \in hit : certificates'[c] # certificates[c]
                 /\ IF hit = {} THEN resp'.code = 404
                    ELSE /\ resp'.code = 200
                         /\ resp'.body.modified_count = Cardinality(hit)]_vars

\* a retry has just reset one record of a batch that also holds a SENT record
C5_Witness ==
    /\ resp.op = "retry_failed"
    /\ resp.code = 200
    /\ \E t \in BagToSet(tasks) :
          /\ t.pc = "find"
          /\ t.requeued # {}
          /\ \E c \in BatchDocs(t.batch_id) : StatusOf(c) = SENT

\* C6: every response of get_progress satisfies total = sent + failed + pending,
\* whatever tasks and retries did between its three counts.
C6_ProgressSums ==
    resp.op = "get_progress" =>
        resp.body.total = resp.body.sent + resp.body.failed + resp.body.pending

\* get_progress has answered on a batch of two with one record SENT, one FAILED
C6_Witness ==
    /\ resp.op = "get_progress"
    /\ resp.body.total = 2
    /\ resp.body.sent = 1
    /\ resp.body.failed = 1

\* C7: retry_failed on a batch with no FAILED record (all PENDING, all SENT, or
\* no record at all) answers 404, changes no record and creates no task; the
\* state it leaves is one in which the same request has the same outcome.
C7_RetryNothingToDo ==
    [][\A b \in BatchArgs :
          (retry_failed(b) /\ FindIds(b, {FAILED}) = {}) =>
              /\ certificates' = certificates
              /\ tasks' = tasks
              /\ retries' = retries
              /\ files' = files
              /\ resp' = Reject("retry_failed", 404,
                                "No failed records found for this batch.")
              /\ FindIds(b, {FAILED})' = {}]_vars

\* retry_failed has just answered 404 while the store holds a batch whose
\* records are all SENT
C7_Witness ==
    /\ resp.op = "retry_failed"
    /\ resp.code = 404
    /\ \E c \in DOMAIN certificates :
          \A d \in BatchDocs(certificates[c].batch_id) : StatusOf(d) = SENT

\* C8: send_batch on an upload none of whose rows is valid answers 400 before
\* any insert: the store is unchanged, no identifier is drawn, the response
\* carries no batch_id and no task is created.
C8_EmptyRejected ==
    [][\A csv_file \in Uploads :
          (/\ send_batch(csv_file)
           /\ csv_file.ext = "csv"
           /\ csv_file.columns_ok
           /\ parse_csv(csv_file.rows) = << >>) =>
              /\ certificates' = certificates
              /\ nextId' = nextId
              /\ tasks' = tasks
              /\ resp' = Reject("send_batch", 400, "CSV contains no valid rows.")]_vars

\* an upload without valid rows has just been rejected by a store that holds
\* records
C8_Witness ==
    /\ resp = Reject("send_batch", 400, "CSV contains no valid rows.")
    /\ DOMAIN certificates # {}

\* C9: a failed render or delivery makes the task write FAILED with the error
\* text on the record it is working on and on no other record, and does not end
\* the task: a task returns only when it has written an outcome, SENT or
\* FAILED, for every record its find read.
C9_FailureIsolated ==
    [][/\ finished'.pc = "done" => finished'.written = Len(finished'.docs)
       /\ \A t \in BagToSet(tasks) :
             /\ (Render(t) \/ Send(t) \/ Pace(t)) => certificates' = certificates
             /\ Update(t) =>
                   /\ \A c \in DOMAIN certificates \ {CurDoc(t)} :
                         certificates'[c] = certificates[c]
                   /\ t.err = None => certificates'[CurDoc(t)].status = SENT
                   /\ t.err # None =>
                         /\ certificates'[CurDoc(t)].status = FAILED
                         /\ certificates'[CurDoc(t)].error_message = t.err]_vars

\* a task has returned after failing on its first record and sending its second
C9_Witness ==
    /\ finished.pc = "done"
    /\ finished.failed
    /\ Len(finished.docs) = 2
    /\ StatusOf(finished.docs[1]) = FAILED
    /\ certificates[finished.docs[1]].error_message \in ErrorTexts
    /\ StatusOf(finished.docs[2]) = SENT

\* C10: when the process is killed while each batch has had one task only, the
\* store holds SENT or FAILED for every record that task has completed, and at
\* most one record it has started on has no outcome yet; that record, the
\* one the task was working on, is PENDING.
C10_CrashLosesAtMostOne ==
    (~alive /\ retries = 0) =>
        \A t \in BagToSet(tasks) :
            LET started == {t.docs[k] : k \in 1..(IF t.pc = "render" THEN t.idx - 1
                                                  ELSE t.idx)}
                open == {c \in started : StatusOf(c) \notin {SENT, FAILED}}
            IN /\ \A k \in 1..t.written : StatusOf(t.docs[k]) \in {SENT, FAILED}
               /\ Cardinality(open) <= 1
               /\ \A c \in open : c = CurDoc(t) /\ StatusOf(c) = PENDING

\* the process was killed while a task had one record done and the next in flight
C10_Witness ==
    /\ ~alive
    /\ retries = 0
    /\ \E t \in BagToSet(tasks) :
          /\ t.pc \in {"send", "update"}
          /\ t.idx = 2
          /\ t.written = 1
          /\ StatusOf(t.docs[2]) = PENDING

\* C11: get_auto_sized_font returns DEFAULT_FONT_SIZE for a name whose width
\* at the default size is at most the box width (the empty name, of width 0,
\* included), MIN_FONT_SIZE for a name that fits at no size from the default
\* down to the minimum, and never a size below MIN_FONT_SIZE; it returns a
\* size for every name, however wide.
C11_FontSizeEnds ==
    font.font_size # 0 =>
        /\ font.text_width[font.DEFAULT_FONT_SIZE] <= font.max_width_px =>
               font.font_size = font.DEFAULT_FONT_SIZE
        /\ (\A s \in font.MIN_FONT_SIZE..font.DEFAULT_FONT_SIZE :
                font.text_width[s] > font.max_width_px) =>
               font.font_size = font.MIN_FONT_SIZE
        /\ font.font_size >= font.MIN_FONT_SIZE
        /\ font.font_size \in FontSizes

\* a name too wide at every size has been given the minimum size, two steps
\* below the default
C11_Witness ==
    /\ font.font_size = font.MIN_FONT_SIZE
    /\ font.DEFAULT_FONT_SIZE >= font.MIN_FONT_SIZE + 3
    /\ \A s \in FontSizes : font.text_width[s] > font.max_width_px

\* C12: a response of get_progress has pending = total - sent - failed and
\* done = (pending = 0 and total > 0); asked about a batch_id that has no
\* record it answers, with code 200, total = sent = failed = pending = 0 and
\* done = FALSE.
C12_ProgressFormula ==
    resp.op = "get_progress" =>
        LET r == resp.body IN
        /\ resp.code = 200
        /\ r.pending = r.total - r.sent - r.failed
        /\ r.done = (r.pending = 0 /\ r.total > 0)
        /\ BatchDocs(r.batch_id) = {} =>
               /\ r.total = 0 /\ r.sent = 0 /\ r.failed = 0 /\ r.pending = 0
               /\ r.done = FALSE

\* get_progress has answered on a batch_id without records while the store
\* holds a batch that is done
C12_Witness ==
    /\ resp.op = "get_progress"
    /\ BatchDocs(resp.body.batch_id) = {}
    /\ DOMAIN certificates # {}
    /\ \A c \in DOMAIN certificates : StatusOf(c) = SENT

\* C13: the certificate number stamped on an artifact depends on the
\* certificate_id alone: two exports of a batch, whenever they are made, stamp
\* the same number on the artifacts of the same record.
C13_CertNumberOfIdAlone ==
    [][\A b \in BatchArgs :
          (/\ download_zip(b)
           /\ resp.op = "download_zip" /\ resp.code = 200
           /\ resp'.code = 200) =>
              \A i \in DOMAIN resp.body.bundle, j \in DOMAIN resp'.body.bundle :
                  resp.body.bundle[i].certificate_id = resp'.body.bundle[j].certificate_id
                      => resp.body.bundle[i].cert_number = resp'.body.bundle[j].cert_number]_vars

\* C14: download_zip on a batch that has records answers 200 whatever renders
\* fail: its bundle holds exactly one artifact for each record of the batch
\* whose render succeeded and none for a record it skipped, no record of the
\* store is changed, and no file of the export is left under GENERATED_DIR.
C14_ExportSkipsFailures ==
    [][\A b \in BatchArgs :
          (download_zip(b) /\ BatchDocs(b) # {}) =>
              LET bundle == resp'.body.bundle
                  kept == BatchDocs(b) \ resp'.body.skipped
              IN /\ resp'.code = 200
                 /\ resp'.body.skipped \subseteq BatchDocs(b)
                 /\ Len(bundle) = Cardinality(kept)
                 /\ \A c \in kept :
                       Cardinality({j \in DOMAIN bundle : bundle[j].certificate_id = c}) = 1
                 /\ certificates' = certificates
                 /\ \A c \in DOMAIN certificates : DlPath(c) \notin files']_vars

\* an export of a batch of two has skipped one record and bundled the other
C14_Witness ==
    /\ resp.op = "download_zip"
    /\ resp.code = 200
    /\ Cardinality(resp.body.skipped) = 1
    /\ Len(resp.body.bundle) = 1
    /\ Cardinality(BatchDocs(resp.body.batch_id)) = 2

\* the tasks other than t that are alive (a bag: two tasks may be in the
\* same local state)
OtherTasks(t) == tasks (-) SetToBag({t})

\* C15: nothing reserves a record for a task: the find of a task fetches every
\* PENDING record of its batch, those another live task of the batch has
\* fetched and not yet written included; so two tasks alive on one batch can
\* both fetch a record as PENDING and both render and deliver it before either
\* writes an outcome (the witness).
C15_NoLease ==
    [][\A t \in BagToSet(tasks) :
          Find(t) =>
              LET pending == FindIds(t.batch_id, {PENDING})
              IN IF pending = {}
                 THEN finished' = [t EXCEPT !.pc = "done", !.requeued = {}]
                 ELSE \E t2 \in BagToSet(tasks') :
                         /\ tasks' = OtherTasks(t) (+) SetToBag({t2})
                         /\ {t2.docs[k] : k \in DOMAIN t2.docs} = pending
                         /\ t2.idx = 1]_vars

\* two tasks of one batch have both rendered and delivered the same record,
\* which is still PENDING: neither has written its outcome
C15_Witness ==
    \E t \in BagToSet(tasks) : \E u \in BagToSet(OtherTasks(t)) :
        /\ t.batch_id = u.batch_id
        /\ t.pc = "update" /\ t.err = None
        /\ u.pc = "update" /\ u.err = None
        /\ CurDoc(t) = CurDoc(u)
        /\ StatusOf(CurDoc(t)) = PENDING

\* C16: while the process runs, the store answers, and no two tasks are alive
\* on the same batch, a task renders and mails only records that are PENDING:
\* a record that is SENT is in the hands of no task, before a render, between
\* render and delivery, or between delivery and the write of the outcome, so
\* the delivery that made it SENT is its only successful one.
C16_SentNotRedone ==
    /\ \A t \in BagToSet(tasks) :
          /\ CopiesIn(t, tasks) = 1
          /\ \A u \in BagToSet(OtherTasks(t)) : u.batch_id # t.batch_id
          /\ t.pc \in {"render", "send", "update"} => StatusOf(CurDoc(t)) = PENDING
          /\ t.pc = "sleep" =>
                StatusOf(CurDoc(t)) = (IF certificates[CurDoc(t)].error_message = None
                                       THEN SENT ELSE FAILED)
    /\ \A c \in DOMAIN certificates :
          StatusOf(c) = SENT => \A t \in BagToSet(tasks) :
              \A k \in (t.written + 1)..Len(t.docs) : t.docs[k] # c

\* a task launched by a retry is about to mail a record of a batch that
\* already has a SENT record
C16_Witness ==
    /\ retries > 0
    /\ \E t \in BagToSet(tasks) :
          /\ t.pc = "send"
          /\ \E c \in BatchDocs(t.batch_id) : StatusOf(c) = SENT

\* the step moves task t to the local state t2
Moves(t, t2) ==
    IF t2.pc = "done"
    THEN finished' = t2 /\ tasks' = OtherTasks(t)
    ELSE finished' = NoTask /\ tasks' = OtherTasks(t) (+) SetToBag({t2})

\* the order of the steps of one task
StepOrder ==
    {<<"find", "render">>, <<"find", "done">>,
     <<"render", "send">>, <<"render", "update">>,
     <<"send", "update">>,
     <<"update", "sleep">>,
     <<"sleep", "send">>, <<"sleep", "update">>, <<"sleep", "done">>}

\* C17: a task works on one record at a time, in the order render, send,
\* write of the status, delay, deletion of the artifact: a delivery follows a
\* successful render only, every record, sent or failed, has its status
\* written and then its delay, and the render of the next record starts only
\* when the delay of the previous one is over, its status written and its
\* artifact deleted.
C17_StepOrder ==
    [][\A t \in BagToSet(tasks) :
          (Find(t) \/ Render(t) \/ Send(t) \/ Update(t) \/ Pace(t)) =>
              \E t2 \in BagToSet(tasks') \cup {finished'} :
                  /\ Moves(t, t2)
                  /\ <<t.pc, t2.pc>> \in StepOrder
                  /\ t2.pc \in {"send", "update"} /\ t.pc \in {"render", "sleep"} =>
                        /\ t2.idx = t2.written + 1
                        /\ t.pc = "sleep" =>
                              /\ t.written = t.idx
                              /\ t2.idx = t.idx + 1
                              /\ PdfPath(CurDoc(t)) \notin files'
                  /\ t.pc = "send" => t.err = None /\ t2.idx = t.idx
                  /\ t.pc = "update" =>
                        /\ t2.idx = t.idx
                        /\ t2.written = t.written + 1
                        /\ t2.written = t2.idx
                        /\ certificates'[CurDoc(t)].status \in {SENT, FAILED}
                  /\ t2.pc = "done" /\ t.pc = "sleep" =>
                        /\ t.idx = Len(t.docs)
                        /\ PdfPath(CurDoc(t)) \notin files']_vars

\* a task is mailing its second record after the first one failed, had its
\* status written and its delay taken
C17_Witness ==
    \E t \in BagToSet(tasks) :
        /\ t.pc = "send"
        /\ t.idx = 2
        /\ t.written = 1
        /\ t.failed
        /\ StatusOf(t.docs[1]) = FAILED
        /\ PdfPath(t.docs[1]) \notin files

\* C18: a record becomes SENT only by the write of a task that, in its
\* current pass over that record, rendered the artifact and had its delivery
\* return without an exception; a task whose render or delivery raised writes
\* FAILED, and a task whose render raised never awaits a delivery for that
\* record.
C18_SentMeansDelivered ==
    [][/\ \A c \in DOMAIN certificates :
             (certificates'[c].status = SENT /\ certificates'[c] # certificates[c]) =>
                 \E t \in BagToSet(tasks) :
                     /\ Update(t) /\ CurDoc(t) = c
                     /\ t.err = None
                     /\ certificates'[c].file_path = PdfPath(c)
       /\ \A t \in BagToSet(tasks) :
             /\ (Update(t) /\ t.err # None) => certificates'[CurDoc(t)].status = FAILED
             /\ (Find(t) \/ Render(t) \/ Send(t) \/ Update(t) \/ Pace(t)) =>
                   \E t2 \in BagToSet(tasks') \cup {finished'} :
                       /\ Moves(t, t2)
                       /\ (t2.pc = "update" /\ t2.err = None) => t.pc = "send"
                       /\ (t2.pc = "update" /\ t.pc \in {"render", "sleep"}) =>
                             t2.err # None
                       /\ t2.pc = "send" =>
                             /\ t.pc \in {"render", "sleep"}
                             /\ t2.err = None
                             /\ PdfPath(CurDoc(t2)) \in files']_vars

\* a task has written FAILED on its first record and SENT, with the path of
\* the artifact, on its second
C18_Witness ==
    \E t \in BagToSet(tasks) :
        /\ t.pc = "sleep"
        /\ t.idx = 2
        /\ StatusOf(t.docs[1]) = FAILED
        /\ StatusOf(t.docs[2]) = SENT
        /\ certificates[t.docs[2]].file_path = PdfPath(t.docs[2])

\* C19: in every state a PENDING record has neither error_message nor
\* file_path, a SENT record has no error_message and a FAILED record has no
\* file_path.
C19_FieldsFollowStatus ==
    \A c \in DOMAIN certificates :
        /\ StatusOf(c) = PENDING =>
              certificates[c].error_message = None /\ certificates[c].file_path = NoPath
        /\ StatusOf(c) = SENT => certificates[c].error_message = None
        /\ StatusOf(c) = FAILED => certificates[c].file_path = NoPath

\* C20: when a task returns, no record of its batch is PENDING.
C20_NoPendingAtEnd ==
    finished.pc = "done" => FindIds(finished.batch_id, {PENDING}) = {}

\* C21: a response of get_progress never has done = TRUE while a record of the
\* batch is PENDING in the store at the moment of its last count, and never
\* has a negative pending, whatever tasks and retries wrote between its three
\* counts.
C21_ProgressNeverAhead ==
    resp.op = "get_progress" =>
        /\ resp.body.done => FindIds(resp.body.batch_id, {PENDING}) = {}
        /\ resp.body.pending >= 0

\* the artifact files other live tasks have rendered and whose delivery has
\* not returned yet
BeingSent(t) == {PdfPath(CurDoc(u)) : u \in {v \in BagToSet(OtherTasks(t)) : v.pc = "send"}}

\* C22: when a task is done with a record, whatever the outcome, the artifact
\* file of that record does not exist; a file disappears only by the
\* safe_delete of a task whose delay on that record is over; and no task
\* deletes, or renders anew, the artifact file another live task has rendered
\* and is delivering.
C22_ArtifactLifetime ==
    [][/\ \A path \in files \ files' :
             \E t \in BagToSet(tasks) :
                 Pace(t) /\ t.written = t.idx /\ path = PdfPath(CurDoc(t))
       /\ \A t \in BagToSet(tasks) :
             /\ Pace(t) =>
                   /\ PdfPath(CurDoc(t)) \notin files'
                   /\ PdfPath(CurDoc(t)) \notin BeingSent(t)
                   /\ t.idx < Len(t.docs) => PdfPath(t.docs[t.idx + 1]) \notin BeingSent(t)
             /\ Render(t) => PdfPath(CurDoc(t)) \notin BeingSent(t)]_vars

\* the fields of a document no operation writes after insert_many
Identity(doc) ==
    [certificate_id |-> doc.certificate_id, batch_id |-> doc.batch_id,
     name |-> doc.name, email |-> doc.email, created_at |-> doc.created_at]

\* C23: tasks of distinct batches do not interfere: the find of a task fetches
\* records of its own batch only, a step of a task changes no record and no
\* artifact file of another batch, retry_failed changes records of its batch
\* only, so what happens to the records of a batch does not depend on the
\* tasks of other batches; and no step changes the certificate_id, batch_id,
\* name, email or created_at of a record, or removes a record.
C23_BatchesIndependent ==
    [][/\ \A c \in DOMAIN certificates :
             /\ c \in DOMAIN certificates'
             /\ Identity(certificates'[c]) = Identity(certificates[c])
             /\ certificates[c].certificate_id = c
       /\ \A t \in BagToSet(tasks) :
             (Find(t) \/ Render(t) \/ Send(t) \/ Update(t) \/ Pace(t)) =>
                 /\ DOMAIN certificates' = DOMAIN certificates
                 /\ \A c \in DOMAIN certificates :
                       certificates[c].batch_id # t.batch_id =>
                           /\ certificates'[c] = certificates[c]
                           /\ PdfPath(c) \in files' <=> PdfPath(c) \in files
                 /\ \E t2 \in BagToSet(tasks') \cup {finished'} :
                       /\ Moves(t, t2)
                       /\ t2.batch_id = t.batch_id
                       /\ \A k \in DOMAIN t2.docs :
                             certificates[t2.docs[k]].batch_id = t.batch_id
       /\ \A b \in BatchArgs :
             retry_failed(b) =>
                 \A c \in DOMAIN certificates :
                     certificates[c].batch_id # b => certificates'[c] = certificates[c]]_vars

\* tasks of two batches are alive, one has written an outcome and the other
\* is delivering
C23_Witness ==
    \E t \in BagToSet(tasks) : \E u \in BagToSet(tasks) :
        /\ t.batch_id # u.batch_id
        /\ t.written = 1
        /\ u.pc = "send"
        /\ StatusOf(CurDoc(u)) = PENDING

\* the sizes the loop of get_auto_sized_font measures: DEFAULT_FONT_SIZE,
\* DEFAULT_FONT_SIZE - 2, ... as long as they are at least MIN_FONT_SIZE
TriedSizes(f) ==
    {s \in f.MIN_FONT_SIZE..f.DEFAULT_FONT_SIZE : (f.DEFAULT_FONT_SIZE - s) % 2 = 0}

\* the name fits the box at size s
Fits(f, s) == f.text_width[s] <= f.max_width_px

\* the measured width does not increase when the font size decreases
NarrowerWhenSmaller(f) ==
    \A s \in FontSizes : \A r \in FontSizes : r <= s => f.text_width[r] <= f.text_width[s]

\* C24: for a name whose width does not increase when the size decreases,
\* get_auto_sized_font returns the largest of the sizes DEFAULT, DEFAULT - 2,
\* ... not below MIN at which the name fits the box, and MIN when it fits at
\* none of them; the size returned lies between MIN and DEFAULT, and it fits
\* the box whenever the name fits at MIN.
C24_LargestFittingSize ==
    (font.font_size # 0 /\ NarrowerWhenSmaller(font)) =>
        LET fitting == {s \in TriedSizes(font) : Fits(font, s)}
        IN /\ fitting # {} =>
                 /\ font.font_size \in fitting
                 /\ \A s \in fitting : s <= font.font_size
           /\ fitting = {} => font.font_size = font.MIN_FONT_SIZE
           /\ font.MIN_FONT_SIZE <= font.font_size
           /\ font.font_size <= font.DEFAULT_FONT_SIZE
           /\ Fits(font, font.MIN_FONT_SIZE) => Fits(font, font.font_size)

\* a name too wide at the default size has been given the next size down,
\* which is above the minimum, and is still too wide one size below the default
C24_Witness ==
    /\ NarrowerWhenSmaller(font)
    /\ font.font_size = font.DEFAULT_FONT_SIZE - 2
    /\ font.font_size > font.MIN_FONT_SIZE
    /\ ~Fits(font, font.DEFAULT_FONT_SIZE - 1)
    /\ Fits(font, font.font_size)

====
